---------------------------- MODULE Spec2Model ----------------------------
(***************************************************************************)
(* A model of InteractiveHtmlBom/core/part_search.py: the best-part        *)
(* selector of JLCPCBClient, the three supplier adapters of PartSearcher   *)
(* and the search_all orchestrator.                                        *)
(*                                                                         *)
(* JSON values.  A value decoded from a backend body is a record           *)
(* [tag, n]:                                                               *)
(*   "absent"  the key is not in the object                                *)
(*   "int"     a JSON integer, n is the integer                            *)
(*   "float"   a JSON number with a fraction, n is the value in hundredths *)
(*   "str_int" a string of an integer literal ("500"), n is the integer    *)
(*   "str_dec" a string of a decimal literal ("2.10"), n in hundredths     *)
(*   "str_sep" a decimal string with thousands separators ("1,234.50"),    *)
(*             n in hundredths                                             *)
(*   "str_qty" a count followed by words ("1234 In Stock"), n is the count *)
(*   "text"    a string with no digit in it ("N/A")                        *)
(*   "null"    JSON null                                                   *)
(* A Python float is modelled by its value in hundredths.                  *)
(***************************************************************************)
EXTENDS Integers, Sequences, FiniteSets, TLC

VARIABLES
    components,      \* select_best_part: the argument list
    best,            \* select_best_part: the returned value, <<>> for None
    sel_pc,          \* select_best_part: "idle" | "ready" | "done"
    config,          \* PartSearcher.config: which credentials are set
    args,            \* the arguments of the running search_all call
    pc,              \* where search_all stands
    reqs,            \* the HTTP requests sent so far, in order, with their outcome
    token,           \* search_digikey: the access token
    search_data,     \* per supplier, the hits of its last decoded response
    jlcpcb_results,  \* search_all: what search_jlcpcb returned
    digikey_results, \* search_all: what search_digikey returned
    mouser_results,  \* search_all: what search_mouser returned
    results,         \* search_all: the mapping being built
    exc              \* the exception that left search_all, "none" if none

sel_vars == <<components, best, sel_pc>>

search_vars == <<config, args, pc, reqs, token, search_data, jlcpcb_results,
                 digikey_results, mouser_results, results, exc>>

vars == <<components, best, sel_pc, config, args, pc, reqs, token, search_data,
          jlcpcb_results, digikey_results, mouser_results, results, exc>>

-----------------------------------------------------------------------------
(* Bounds of the model *)

\* The longest list select_best_part is applied to.
MaxLen == 3

\* The most hits a backend answers with.
MaxHits == 6

-----------------------------------------------------------------------------
(* JSON values *)

Absent == [tag |-> "absent", n |-> 0]
Null == [tag |-> "null", n |-> 0]
Text == [tag |-> "text", n |-> 0]
IntV(k) == [tag |-> "int", n |-> k]
FloatV(h) == [tag |-> "float", n |-> h]
StrInt(k) == [tag |-> "str_int", n |-> k]
StrDec(h) == [tag |-> "str_dec", n |-> h]
StrSep(h) == [tag |-> "str_sep", n |-> h]
StrQty(k) == [tag |-> "str_qty", n |-> k]
\* The string "C" followed by the digits of k, and the empty string.
CId(k) == [tag |-> "str_cid", n |-> k]
EmptyStr == [tag |-> "str_empty", n |-> 0]

Has(v) == v.tag # "absent"

\* Truncation toward zero of a value in hundredths: int(2.99) = 2, int(-2.5) = -2.
Trunc(h) == IF h >= 0 THEN h \div 100 ELSE -((-h) \div 100)

\* int(v): the integer, or the exception Python raises.
PyInt(v) ==
    CASE v.tag = "int" -> [exc |-> "none", n |-> v.n]
      [] v.tag = "float" -> [exc |-> "none", n |-> Trunc(v.n)]
      [] v.tag = "str_int" -> [exc |-> "none", n |-> v.n]
      [] v.tag \in {"str_dec", "str_sep", "str_qty", "text", "str_cid", "str_empty"} ->
            [exc |-> "ValueError", n |-> 0]
      [] OTHER -> [exc |-> "TypeError", n |-> 0]

\* float(str(v).replace(',', '')): the float in hundredths, or the exception.
\* str(None) is "None", which float() rejects with ValueError.
PyFloatOfStr(v) ==
    CASE v.tag \in {"int", "str_int"} -> [exc |-> "none", n |-> v.n * 100]
      [] v.tag \in {"float", "str_dec", "str_sep"} -> [exc |-> "none", n |-> v.n]
      [] OTHER -> [exc |-> "ValueError", n |-> 0]

-----------------------------------------------------------------------------
(* JLCPCBClient.select_best_part *)

\* Lines 78-88: the stock of one component; 'stockQty' is read only when the
\* object has no 'stock' key, and both conversion errors are swallowed.
SelectStock(comp) ==
    IF Has(comp.stock)
      THEN (IF PyInt(comp.stock).exc = "none" THEN PyInt(comp.stock).n ELSE 0)
      ELSE IF Has(comp.stockQty)
        THEN (IF PyInt(comp.stockQty).exc = "none" THEN PyInt(comp.stockQty).n ELSE 0)
        ELSE 0

InStockTestGE(stock) == stock >= 0

\* Line 90.
InStockTest(stock) == stock > 0

\* Lines 77-92: the loop writes _stock into every in-stock component; the
\* objects are the caller's, so the argument list is left marked.
MarkInStock(comps) ==
    [i \in 1..Len(comps) |->
        IF InStockTest(SelectStock(comps[i]))
          THEN [comps[i] EXCEPT !._stock = IntV(SelectStock(comps[i]))]
          ELSE comps[i]]

\* Lines 76-92: in_stock, the in-stock components in input order.
RECURSIVE InStock(_)
InStock(comps) ==
    IF comps = <<>> THEN <<>>
    ELSE IF InStockTest(SelectStock(Head(comps)))
           THEN <<MarkInStock(<<Head(comps)>>)[1]>> \o InStock(Tail(comps))
           ELSE InStock(Tail(comps))

SortKeyAscendingStock(comp) ==
    <<(IF Has(comp._stock) THEN comp._stock.n ELSE 0),
      (IF Has(comp.price) /\ PyFloatOfStr(comp.price).exc = "none"
         THEN PyFloatOfStr(comp.price).n ELSE 0)>>

\* Lines 98-106: sort_key.
SortKey(comp) ==
    LET stock == IF Has(comp._stock) THEN comp._stock.n ELSE 0
        price == IF Has(comp.price) /\ PyFloatOfStr(comp.price).exc = "none"
                   THEN PyFloatOfStr(comp.price).n
                   ELSE 0
    IN  <<-stock, price>>

\* Python's comparison of two (int, float) tuples.
KeyLess(a, b) == a[1] < b[1] \/ (a[1] = b[1] /\ a[2] < b[2])

\* The place of x in a sorted list: before the first element with a larger key.
RECURSIVE InsertAfterEqual(_, _)
InsertAfterEqual(x, s) ==
    IF s = <<>> THEN <<x>>
    ELSE IF KeyLess(SortKey(x), SortKey(Head(s)))
           THEN <<x>> \o s
           ELSE <<Head(s)>> \o InsertAfterEqual(x, Tail(s))

RECURSIVE SortUnstable(_)
SortUnstable(s) ==
    IF s = <<>> THEN <<>>
    ELSE InsertAfterEqual(Head(s), SortUnstable(Tail(s)))

\* Line 108: list.sort(key=sort_key), a stable sort: elements of equal key keep
\* their order.
RECURSIVE SortStable(_)
SortStable(s) ==
    IF s = <<>> THEN <<>>
    ELSE InsertAfterEqual(s[Len(s)], SortStable(SubSeq(s, 1, Len(s) - 1)))

\* Lines 94-95: no component is in stock.
Fallback(comps) == <<comps[1]>>

\* Lines 70-109.  The result is <<>> for None and <<comp>> for a component.
select_best_part(comps) ==
    IF comps = <<>> THEN <<>>
    ELSE IF InStock(comps) = <<>> THEN Fallback(comps)
    ELSE <<SortStable(InStock(comps))[1]>>

-----------------------------------------------------------------------------
(* PartSearchResult and the three field mappers *)

\* Lines 15-28.  stock holds whatever the mapper stored (a JSON value), price is
\* a float in hundredths; footprint is "" for an empty string; url is a base
\* followed by an id; lcsc_part holds whatever the mapper stored.
PartSearchResult(supplier, part_number, value, footprint, stock, price, url, lcsc_part) ==
    [supplier |-> supplier, part_number |-> part_number, value |-> value,
     footprint |-> footprint, stock |-> stock, price |-> price, url |-> url,
     lcsc_part |-> lcsc_part]

\* str(v) of a JSON value; str(None) is "None", a text.
PyStr(v) ==
    CASE v.tag = "int" -> StrInt(v.n)
      [] v.tag = "float" -> StrDec(v.n)
      [] v.tag = "null" -> Text
      [] OTHER -> v

\* s.isdigit() of a string: digits only, and at least one.  "-5" is not.
IsDigit(s) == s.tag = "str_int" /\ s.n >= 0

\* Lines 358-362: 'lcsc' gets the "C" in front when str() of it is digits;
\* 'lcscCode' is read only when the object has no 'lcsc' key and is stored as
\* it came.
LcscPart(comp) ==
    IF Has(comp.lcsc)
      THEN (IF IsDigit(PyStr(comp.lcsc)) THEN CId(PyStr(comp.lcsc).n)
                                         ELSE PyStr(comp.lcsc))
      ELSE IF Has(comp.lcscCode) THEN comp.lcscCode ELSE EmptyStr

\* Line 396: the f-string formats lcsc_part with str().
JlcpcbUrl(lcsc_part) == [base |-> "https://jlcpcb.com/part/", id |-> PyStr(lcsc_part)]

\* Lines 421 and 451: 'ProductUrl' / 'ProductDetailUrl' with the default ''; the
\* products and parts of the model carry no link.
NoUrl == [base |-> "", id |-> EmptyStr]

\* Lines 364-374.
JlcpcbStock(comp) ==
    IF Has(comp.stock)
      THEN (IF PyInt(comp.stock).exc = "none" THEN PyInt(comp.stock).n ELSE 0)
      ELSE IF Has(comp.stockQty)
        THEN (IF PyInt(comp.stockQty).exc = "none" THEN PyInt(comp.stockQty).n ELSE 0)
        ELSE 0

\* Lines 376-381.
JlcpcbPrice(comp) ==
    IF Has(comp.price) /\ PyFloatOfStr(comp.price).exc = "none"
      THEN PyFloatOfStr(comp.price).n
      ELSE 0

\* Lines 356-399: _parse_jlcpcb_result on a component object; it raises nothing.
\* A package reported by the backend is a text kept as it is.
parse_jlcpcb_result(comp, value, footprint) ==
    PartSearchResult("JLCPCB", comp.mfrPartNo, value,
                     IF Has(comp.package) THEN "pkg" ELSE footprint,
                     IntV(JlcpcbStock(comp)), JlcpcbPrice(comp),
                     JlcpcbUrl(LcscPart(comp)), LcscPart(comp))

\* float(v), line 409: no separator is removed, and None is a TypeError.
PyFloat(v) ==
    CASE v.tag \in {"int", "str_int"} -> [exc |-> "none", n |-> v.n * 100]
      [] v.tag \in {"float", "str_dec"} -> [exc |-> "none", n |-> v.n]
      [] v.tag \in {"str_sep", "str_qty", "text", "str_cid", "str_empty"} ->
            [exc |-> "ValueError", n |-> 0]
      [] OTHER -> [exc |-> "TypeError", n |-> 0]

\* Lines 405-411: the price, or the exception that leaves the mapper; only
\* ValueError and KeyError are caught.  'UnitPrice' defaults to 0.0.
DigikeyPrice(product) ==
    IF product.StandardPricing = <<>> THEN [exc |-> "none", n |-> 0]
    ELSE LET up == product.StandardPricing[1].UnitPrice
         IN  IF ~Has(up) THEN [exc |-> "none", n |-> 0]
             ELSE IF PyFloat(up).exc = "ValueError" THEN [exc |-> "none", n |-> 0]
             ELSE PyFloat(up)

\* Lines 401-424: _parse_digikey_result; rec is <<record>>, or <<>> when the
\* mapper raised exc.  'QuantityAvailable' is stored as it came.
parse_digikey_result(product, value, footprint) ==
    LET p == DigikeyPrice(product)
    IN  IF p.exc # "none" THEN [exc |-> p.exc, rec |-> <<>>]
        ELSE [exc |-> "none",
              rec |-> <<PartSearchResult("Digi-Key", product.ManufacturerPartNumber,
                          value, footprint,
                          IF Has(product.QuantityAvailable)
                            THEN product.QuantityAvailable ELSE IntV(0),
                          p.n, NoUrl, EmptyStr)>>]

Abs(k) == IF k < 0 THEN -k ELSE k

\* The digits before the first separator of a number written with thousands
\* separators.
RECURSIVE LeadGroup(_)
LeadGroup(k) == IF k < 1000 THEN k ELSE LeadGroup(k \div 1000)

\* Lines 428-433: the first run of digits of str(availability), 0 if none.
MouserStock(part) ==
    LET a == part.Availability
    IN  CASE a.tag \in {"int", "str_int", "str_qty"} -> Abs(a.n)
          [] a.tag \in {"float", "str_dec"} -> Abs(a.n) \div 100
          [] a.tag = "str_sep" -> LeadGroup(Abs(a.n) \div 100)
          [] OTHER -> 0

\* Lines 435-441: .replace exists on strings only, so a 'Price' that is absent
\* (the 0.0 default), a number or null raises AttributeError, which is not caught
\* here.
MouserPrice(part) ==
    IF part.PriceBreaks = <<>> THEN [exc |-> "none", n |-> 0]
    ELSE LET pr == part.PriceBreaks[1].Price
         IN  IF pr.tag \in {"absent", "int", "float", "null"}
               THEN [exc |-> "AttributeError", n |-> 0]
             ELSE IF PyFloatOfStr(pr).exc = "ValueError" THEN [exc |-> "none", n |-> 0]
             ELSE PyFloatOfStr(pr)

\* Lines 426-454: _parse_mouser_result.
parse_mouser_result(part, value, footprint) ==
    LET p == MouserPrice(part)
    IN  IF p.exc # "none" THEN [exc |-> p.exc, rec |-> <<>>]
        ELSE [exc |-> "none",
              rec |-> <<PartSearchResult("Mouser", part.ManufacturerPartNumber,
                          value, footprint, IntV(MouserStock(part)), p.n,
                          NoUrl, EmptyStr)>>]

-----------------------------------------------------------------------------
(* The components a list is drawn from *)

\* (stock, stockQty) of a component.
StockPairs ==
    { <<Absent, Absent>>, <<Absent, IntV(5)>>, <<IntV(0), IntV(5)>>,
      <<IntV(-5), Absent>>, <<IntV(5), Absent>>, <<IntV(500), Absent>>,
      <<Text, IntV(500)>> }

Prices == { Absent, StrDec(210), StrSep(123450), IntV(3) }

Comp(i, sp, p) ==
    [mfrPartNo |-> i, stock |-> sp[1], stockQty |-> sp[2], price |-> p,
     package |-> Absent, lcsc |-> Absent, lcscCode |-> Absent,
     _stock |-> Absent]

\* The lists of n components; the i-th component has part number i.
CompLists(n) ==
    { [i \in 1..n |-> Comp(i, f[i][1], f[i][2])] :
        f \in [1..n -> StockPairs \X Prices] }

-----------------------------------------------------------------------------
(* Backend responses *)

Suppliers == {"JLCPCB", "Digi-Key", "Mouser"}

\* The components of the JLCSearch catalogue, in the order it lists them.
JlcCatalogue ==
    << [stock |-> IntV(500), stockQty |-> Absent, price |-> StrDec(210),
        lcsc |-> IntV(1234), lcscCode |-> Absent],
       [stock |-> Absent, stockQty |-> IntV(900), price |-> IntV(3),
        lcsc |-> Absent, lcscCode |-> CId(5678)],
       [stock |-> Text, stockQty |-> Absent, price |-> StrSep(123450),
        lcsc |-> CId(25804), lcscCode |-> Absent],
       [stock |-> IntV(-5), stockQty |-> Absent, price |-> Absent,
        lcsc |-> Absent, lcscCode |-> StrInt(9012)] >>

JlcHit(i) ==
    LET c == JlcCatalogue[((i - 1) % Len(JlcCatalogue)) + 1]
    IN  [Comp(i, <<c.stock, c.stockQty>>, c.price)
            EXCEPT !.lcsc = c.lcsc, !.lcscCode = c.lcscCode]

Product(i, qty, pricing) ==
    [ManufacturerPartNumber |-> i, QuantityAvailable |-> qty,
     StandardPricing |-> pricing]

DigikeyCatalogue ==
    << [qty |-> IntV(1200), pricing |-> <<[UnitPrice |-> FloatV(10)]>>],
       [qty |-> Text, pricing |-> <<[UnitPrice |-> StrSep(123450)]>>],
       [qty |-> Absent, pricing |-> <<>>] >>

DigikeyHit(i) ==
    LET c == DigikeyCatalogue[((i - 1) % Len(DigikeyCatalogue)) + 1]
    IN  Product(i, c.qty, c.pricing)

\* A product whose unit price is null.
DigikeyOddHit(i) == Product(i, IntV(7), <<[UnitPrice |-> Null]>>)

Part(i, availability, breaks) ==
    [ManufacturerPartNumber |-> i, Availability |-> availability,
     PriceBreaks |-> breaks]

MouserCatalogue ==
    << [availability |-> StrQty(1234), breaks |-> <<[Price |-> StrDec(210)]>>],
       [availability |-> Text, breaks |-> <<[Price |-> StrSep(123450)]>>],
       [availability |-> Absent, breaks |-> <<>>] >>

MouserHit(i) ==
    LET c == MouserCatalogue[((i - 1) % Len(MouserCatalogue)) + 1]
    IN  Part(i, c.availability, c.breaks)

\* A part whose price is a JSON number, not a string.
MouserOddHit(i) == Part(i, IntV(40), <<[Price |-> FloatV(50)]>>)

\* The hit lists a backend answers with: the first n hits of its catalogue, and
\* lists of two and three hits whose second hit is the odd one.
HitLists(hits, odd) ==
    { SubSeq(hits, 1, n) : n \in 0..MaxHits }
      \cup { [SubSeq(hits, 1, n) EXCEPT ![2] = odd] : n \in 2..3 }

\* What a request can come to:
\*   "exc"       requests raises (connection error, timeout)
\*   "status"    a status other than 200
\*   "badjson"   200, and response.json() raises
\*   "notobject" 200, and the decoded body is no object (a list)
\*   "nokey"     200, an object without the key the adapter reads
\*   "nullhit"   200, and the hit list is [null]
\*   "ok"        200, an object with a list of hit objects
FailureKinds == {"exc", "status", "badjson", "notobject", "nokey", "nullhit"}

Responses(lists) ==
    { [kind |-> k, hits |-> <<>>] : k \in FailureKinds }
      \cup { [kind |-> "ok", hits |-> h] : h \in lists }

JlcResponses ==
    Responses(HitLists([i \in 1..MaxHits |-> JlcHit(i)], JlcHit(2)))
DigikeyResponses ==
    Responses(HitLists([i \in 1..MaxHits |-> DigikeyHit(i)], DigikeyOddHit(2)))
MouserResponses ==
    Responses(HitLists([i \in 1..MaxHits |-> MouserHit(i)], MouserOddHit(2)))

\* The token endpoint: "ok" carries an access_token, "nokey" does not.
TokenResponses ==
    { [kind |-> k, hits |-> <<>>] : k \in {"exc", "status", "badjson", "notobject",
                                           "nokey", "ok"} }

\* Lines 161, 175, 180, 246 and 302: the number of records every search asks
\* the backend for.
Limit == 10

\* One entry of the request log: what was sent and what it came to.  The token
\* request asks for no records.
Request(sup, op, term, package, auth, r) ==
    [sup |-> sup, op |-> op, term |-> term, package |-> package, auth |-> auth,
     limit |-> (IF op = "token" THEN 0 ELSE Limit),
     outcome |-> r.kind, nhits |-> Len(r.hits)]

-----------------------------------------------------------------------------
(* The adapters *)

\* Lines 185, 257 and 315: the slice [:5].
TopN == 5

Take(s, n) == SubSeq(s, 1, IF Len(s) < n THEN Len(s) ELSE n)

\* Lines 44-68: what search_components returns for a response.  Every failure
\* inside the try block gives []; a [null] hit list is returned as it is.
search_components(r) ==
    CASE r.kind = "ok" -> [nullhit |-> FALSE, comps |-> r.hits]
      [] r.kind = "nullhit" -> [nullhit |-> TRUE, comps |-> <<>>]
      [] OTHER -> [nullhit |-> FALSE, comps |-> <<>>]

\* Lines 155-157.
PartSearchTerm(a) ==
    IF a.manufacturer # "" THEN <<a.manufacturer, a.mfg_part>> ELSE <<a.mfg_part>>

\* Lines 232-234 and 289-291.
KeywordTerm(a) ==
    IF a.component_type # ""
      THEN (IF a.footprint # "" THEN <<a.component_type, a.value, a.footprint>>
                                ELSE <<a.component_type, a.value>>)
      ELSE (IF a.footprint # "" THEN <<a.value, a.footprint>> ELSE <<a.value>>)

\* Lines 185-186: every one of the first five components is mapped.
RECURSIVE JlcpcbRecords(_, _)
JlcpcbRecords(comps, a) ==
    IF comps = <<>> THEN <<>>
    ELSE <<parse_jlcpcb_result(Head(comps), a.value, a.footprint)>>
            \o JlcpcbRecords(Tail(comps), a)

BestFirstListed(comps) == <<comps[1]>>

\* Line 165.
BestMatch(comps) == select_best_part(comps)

\* Line 166: a component object is true unless it has no key at all; every
\* component of the catalogue carries its mfrPartNo.
Truthy(match) == match # <<>> /\ match[1].mfrPartNo >= 1

\* Lines 257-258 inside the try of lines 213-261: the records appended before a
\* mapper raises; the exception ends the loop and line 263 returns them.
RECURSIVE DigikeyRecords(_, _)
DigikeyRecords(products, a) ==
    IF products = <<>> THEN <<>>
    ELSE LET r == parse_digikey_result(Head(products), a.value, a.footprint)
         IN  IF r.exc # "none" THEN <<>>
             ELSE r.rec \o DigikeyRecords(Tail(products), a)

\* Lines 315-316 inside the try of lines 288-319.
RECURSIVE MouserRecords(_, _)
MouserRecords(parts, a) ==
    IF parts = <<>> THEN <<>>
    ELSE LET r == parse_mouser_result(Head(parts), a.value, a.footprint)
         IN  IF r.exc # "none" THEN <<>>
             ELSE r.rec \o MouserRecords(Tail(parts), a)

EmptyMap == [s \in {} |-> <<>>]

StoreAlways(res, key, recs) == (key :> recs) @@ res

\* Lines 341-342, 346-347 and 351-352.
Store(res, key, recs) ==
    IF recs # <<>> THEN (key :> recs) @@ res ELSE res

-----------------------------------------------------------------------------
(* search_all, one action per HTTP request *)

IdleArgs ==
    [value |-> "", footprint |-> "", component_type |-> "", manufacturer |-> "",
     mfg_part |-> ""]

SelectIdle == components = <<>> /\ best = <<>> /\ sel_pc = "idle"

\* Lines 115-130: a PartSearcher with any of the three credentials set or not.
Init ==
    /\ SelectIdle
    /\ config \in [digikey_client_id : BOOLEAN, digikey_client_secret : BOOLEAN,
                   mouser_api_key : BOOLEAN]
    /\ args = IdleArgs
    /\ pc = "idle"
    /\ reqs = <<>>
    /\ token = "unset"
    /\ search_data = [s \in Suppliers |-> <<>>]
    /\ jlcpcb_results = <<>>
    /\ digikey_results = <<>>
    /\ mouser_results = <<>>
    /\ results = EmptyMap
    /\ exc = "none"

\* Lines 323-340: search_all is called and calls search_jlcpcb.
SearchAll ==
    /\ pc = "idle"
    /\ \E fp \in {"", "0402"}, ct \in {"", "resistor"}, mf \in {"", "Acme"},
          mp \in {"", "ABC123"} :
          args' = [value |-> "100K", footprint |-> fp, component_type |-> ct,
                   manufacturer |-> mf, mfg_part |-> mp]
    /\ pc' = "jlcpcb"
    /\ UNCHANGED <<config, reqs, token, search_data, jlcpcb_results,
                   digikey_results, mouser_results, results, exc>>
    /\ UNCHANGED sel_vars

\* Lines 154-168 (and 341-342 when search_jlcpcb returns here): the request by
\* part number.
JlcpcbPartSearch ==
    /\ pc = "jlcpcb"
    /\ args.mfg_part # ""
    /\ \E r \in JlcResponses :
        LET found == search_components(r)
            recs == <<parse_jlcpcb_result(BestMatch(found.comps)[1],
                                          args.value, args.footprint)>>
        IN  /\ reqs' = Append(reqs, Request("JLCPCB", "part_search",
                                            PartSearchTerm(args), "", "", r))
            /\ IF found.nullhit
                 THEN \* select_best_part: 'stock' in None
                      /\ pc' = "raised"
                      /\ exc' = "TypeError"
                      /\ UNCHANGED <<search_data, jlcpcb_results, results>>
                 ELSE IF found.comps # <<>> /\ Truthy(BestMatch(found.comps))
                 THEN /\ search_data' = [search_data EXCEPT !["JLCPCB"] =
                                             MarkInStock(found.comps)]
                      /\ jlcpcb_results' = recs
                      /\ results' = Store(results, "JLCPCB", recs)
                      /\ pc' = "digikey"
                      /\ exc' = exc
                 ELSE /\ pc' = "jlcpcb_value"
                      /\ UNCHANGED <<search_data, jlcpcb_results, results, exc>>
    /\ UNCHANGED <<config, args, token, digikey_results, mouser_results>>
    /\ UNCHANGED sel_vars

\* Lines 171-188 and 341-342: the request by value and footprint.
JlcpcbValueSearch ==
    /\ \/ pc = "jlcpcb" /\ args.mfg_part = ""
       \/ pc = "jlcpcb_value"
    /\ \E r \in JlcResponses :
        LET found == search_components(r)
            recs == JlcpcbRecords(Take(found.comps, TopN), args)
        IN  /\ reqs' = Append(reqs, Request("JLCPCB", "value_search",
                                            <<args.value>>, args.footprint, "", r))
            /\ IF found.nullhit
                 THEN \* _parse_jlcpcb_result: 'lcsc' in None
                      /\ pc' = "raised"
                      /\ exc' = "TypeError"
                      /\ UNCHANGED <<search_data, jlcpcb_results, results>>
                 ELSE /\ search_data' = [search_data EXCEPT !["JLCPCB"] = found.comps]
                      /\ jlcpcb_results' = recs
                      /\ results' = Store(results, "JLCPCB", recs)
                      /\ pc' = "digikey"
                      /\ exc' = exc
    /\ UNCHANGED <<config, args, token, digikey_results, mouser_results>>
    /\ UNCHANGED sel_vars

\* Lines 207-209 and 345-347.
DigikeyNotConfigured ==
    /\ pc = "digikey"
    /\ ~config.digikey_client_id
    /\ digikey_results' = <<>>
    /\ results' = Store(results, "Digi-Key", <<>>)
    /\ pc' = "mouser"
    /\ UNCHANGED <<config, args, reqs, token, search_data, jlcpcb_results,
                   mouser_results, exc>>
    /\ UNCHANGED sel_vars

TokenAlwaysContinue(r) == TRUE

\* Lines 225-229: whether search_digikey goes on to the keyword search.  A body
\* without access_token gives the token None and the search goes on.
TokenContinue(r) == r.kind \in {"ok", "nokey"}

\* Lines 213-229 (and 260-263, 345-347 when search_digikey ends here): the
\* token request.  Only digikey_client_id is asked for at line 207; the
\* client_secret sent is config.get('digikey_client_secret'), None when unset.
DigikeyToken ==
    /\ pc = "digikey"
    /\ config.digikey_client_id
    /\ \E r \in TokenResponses :
        /\ reqs' = Append(reqs, Request("Digi-Key", "token", <<>>, "",
                                        IF config.digikey_client_secret
                                          THEN "client_secret" ELSE "None", r))
        /\ IF TokenContinue(r)
             THEN /\ token' = (IF r.kind = "ok" THEN "tok" ELSE "None")
                  /\ pc' = "digikey_search"
                  /\ UNCHANGED <<digikey_results, results>>
             ELSE /\ digikey_results' = <<>>
                  /\ results' = Store(results, "Digi-Key", <<>>)
                  /\ pc' = "mouser"
                  /\ token' = token
    /\ UNCHANGED <<config, args, search_data, jlcpcb_results, mouser_results, exc>>
    /\ UNCHANGED sel_vars

\* Lines 231-263 and 345-347: the keyword search.
DigikeySearch ==
    /\ pc = "digikey_search"
    /\ \E r \in DigikeyResponses :
        LET recs == DigikeyRecords(Take(r.hits, TopN), args)
        IN  /\ reqs' = Append(reqs, Request("Digi-Key", "keyword", KeywordTerm(args),
                                            "", token, r))
            /\ search_data' = [search_data EXCEPT !["Digi-Key"] = r.hits]
            /\ digikey_results' = recs
            /\ results' = Store(results, "Digi-Key", recs)
    /\ pc' = "mouser"
    /\ UNCHANGED <<config, args, token, jlcpcb_results, mouser_results, exc>>
    /\ UNCHANGED sel_vars

\* Lines 282-284, 350-354.
MouserNotConfigured ==
    /\ pc = "mouser"
    /\ ~config.mouser_api_key
    /\ mouser_results' = <<>>
    /\ results' = Store(results, "Mouser", <<>>)
    /\ pc' = "done"
    /\ UNCHANGED <<config, args, reqs, token, search_data, jlcpcb_results,
                   digikey_results, exc>>
    /\ UNCHANGED sel_vars

\* Lines 286-321, 350-354.
MouserSearch ==
    /\ pc = "mouser"
    /\ config.mouser_api_key
    /\ \E r \in MouserResponses :
        LET recs == MouserRecords(Take(r.hits, TopN), args)
        IN  /\ reqs' = Append(reqs, Request("Mouser", "search", KeywordTerm(args),
                                            "", "key", r))
            /\ search_data' = [search_data EXCEPT !["Mouser"] = r.hits]
            /\ mouser_results' = recs
            /\ results' = Store(results, "Mouser", recs)
    /\ pc' = "done"
    /\ UNCHANGED <<config, args, token, jlcpcb_results, digikey_results, exc>>
    /\ UNCHANGED sel_vars

Next ==
    \/ SearchAll
    \/ JlcpcbPartSearch
    \/ JlcpcbValueSearch
    \/ DigikeyNotConfigured
    \/ DigikeyToken
    \/ DigikeySearch
    \/ MouserNotConfigured
    \/ MouserSearch

Spec == Init /\ [][Next]_vars

-----------------------------------------------------------------------------
(* select_best_part applied to every list *)

SearchIdle ==
    /\ config = [digikey_client_id |-> FALSE, digikey_client_secret |-> FALSE,
                 mouser_api_key |-> FALSE]
    /\ args = IdleArgs
    /\ pc = "idle"
    /\ reqs = <<>>
    /\ token = "unset"
    /\ search_data = [s \in Suppliers |-> <<>>]
    /\ jlcpcb_results = <<>>
    /\ digikey_results = <<>>
    /\ mouser_results = <<>>
    /\ results = EmptyMap
    /\ exc = "none"

InitSelect ==
    /\ \E n \in 0..MaxLen : components \in CompLists(n)
    /\ best = <<>>
    /\ sel_pc = "ready"
    /\ SearchIdle

SelectBestPart ==
    /\ sel_pc = "ready"
    /\ best' = select_best_part(components)
    /\ components' = MarkInStock(components)
    /\ sel_pc' = "done"
    /\ UNCHANGED search_vars

NextSelect == SelectBestPart

SpecSelect == InitSelect /\ [][NextSelect]_vars

-----------------------------------------------------------------------------
(* Properties of select_best_part *)

\* The stock and price the record of a component carries.
ParsedStock(comp) == parse_jlcpcb_result(comp, "100K", "").stock.n
ParsedPrice(comp) == parse_jlcpcb_result(comp, "100K", "").price

InStockIdx == { i \in 1..Len(components) : ParsedStock(components[i]) > 0 }

\* C1: when the list holds an in-stock item, the returned item is an item of the
\* list whose parsed stock is the largest among the in-stock items and whose
\* parsed price is the smallest among the in-stock items of that largest stock.
C1_MaxStockMinPrice ==
    (sel_pc = "done" /\ InStockIdx # {}) =>
        /\ Len(best) = 1
        /\ \E k \in InStockIdx : best[1] = components[k]
        /\ \A i \in InStockIdx : ParsedStock(components[i]) <= ParsedStock(best[1])
        /\ \A i \in InStockIdx :
              ParsedStock(components[i]) = ParsedStock(best[1])
                  => ParsedPrice(best[1]) <= ParsedPrice(components[i])

\* A list of three in-stock items where the last one wins: it beats the first on
\* stock and the second, of equal stock, on price.
C1_Witness ==
    /\ sel_pc = "done"
    /\ Len(components) = 3
    /\ InStockIdx = {1, 2, 3}
    /\ Len(best) = 1
    /\ best[1].mfrPartNo = 3
    /\ ParsedStock(components[1]) < ParsedStock(components[3])
    /\ ParsedStock(components[2]) = ParsedStock(components[3])
    /\ ParsedPrice(components[2]) > ParsedPrice(components[3])

\* C2: the empty list gives None; a non-empty list with no in-stock item gives
\* the first element of the list, which the call left as it was passed.
C2_EmptyAndFallback ==
    sel_pc = "done" =>
        /\ components = <<>> => best = <<>>
        /\ (components # <<>> /\ InStockIdx = {}) =>
              (best = <<components[1]>> /\ ~Has(components[1]._stock))

\* Three items out of stock in three ways (zero, negative, unparsable), of which
\* the first is returned.
C2_Witness ==
    /\ sel_pc = "done"
    /\ Len(components) = 3
    /\ InStockIdx = {}
    /\ components[1].stock = IntV(0)
    /\ components[2].stock = IntV(-5)
    /\ components[3].stock = Text
    /\ best = <<components[1]>>

\* C3: among the in-stock items that share the returned item's parsed stock and
\* parsed price, the returned one is the earliest of the list.
C3_Stable ==
    (sel_pc = "done" /\ InStockIdx # {}) =>
        /\ Len(best) = 1
        /\ \A i \in InStockIdx :
              ( /\ ParsedStock(components[i]) = ParsedStock(best[1])
                /\ ParsedPrice(components[i]) = ParsedPrice(best[1]) )
                  => best[1].mfrPartNo <= components[i].mfrPartNo

\* The second and third items tie on the best (stock, price) and the second is
\* returned.
C3_Witness ==
    /\ sel_pc = "done"
    /\ Len(components) = 3
    /\ InStockIdx = {1, 2, 3}
    /\ ParsedStock(components[1]) < ParsedStock(components[2])
    /\ ParsedStock(components[2]) = ParsedStock(components[3])
    /\ ParsedPrice(components[2]) = ParsedPrice(components[3])
    /\ Len(best) = 1
    /\ best[1].mfrPartNo = 2

-----------------------------------------------------------------------------
(* Properties of the adapters and of search_all *)

\* The adapter of supplier s has returned to search_all.
Returned(s) ==
    CASE s = "JLCPCB" -> pc \in {"digikey", "digikey_search", "mouser", "done"}
      [] s = "Digi-Key" -> pc \in {"mouser", "done"}
      [] OTHER -> pc = "done"

AdapterResult(s) ==
    CASE s = "JLCPCB" -> jlcpcb_results
      [] s = "Digi-Key" -> digikey_results
      [] OTHER -> mouser_results

\* The credentials an adapter asks for are set.
Configured(s) ==
    CASE s = "JLCPCB" -> TRUE
      [] s = "Digi-Key" -> config.digikey_client_id
      [] OTHER -> config.mouser_api_key

ReqIdx(s) == { i \in 1..Len(reqs) : reqs[i].sup = s }

LastIdx(s) == CHOOSE i \in ReqIdx(s) : \A j \in ReqIdx(s) : j <= i

\* The last request to s was sent and came to outcome k.
LastOutcome(s, k) == ReqIdx(s) # {} /\ reqs[LastIdx(s)].outcome = k

\* The request met a connection error, a timeout or a status other than 200.
Failed(q) == q.outcome \in {"exc", "status"}

\* C4: no exception leaves an adapter, whatever its backend does, and an adapter
\* whose last request did not bring a hit list returns the empty sequence.
C4_NoExceptionCrossesAdapter ==
    /\ exc = "none"
    /\ pc # "raised"
    /\ \A s \in Suppliers :
          (Returned(s) /\ ReqIdx(s) # {} /\ ~LastOutcome(s, "ok"))
              => AdapterResult(s) = <<>>

\* C5: when search_all is over, every supplier whose credentials are set has
\* been queried, whatever the other backends did, and the mapping holds for it
\* just the records its own adapter made; with one supplier failed, another that
\* made 3 records and the third not configured, the mapping has exactly one key,
\* with the 3 records.
C5_FailuresIsolated ==
    pc \in {"done", "raised"} =>
        /\ \A s \in Suppliers :
              Configured(s) =>
                  /\ ReqIdx(s) # {}
                  /\ AdapterResult(s) # <<>> =>
                        (s \in DOMAIN results /\ results[s] = AdapterResult(s))
        /\ \A s, t \in Suppliers :
              ( /\ s # t
                /\ ReqIdx(s) # {} /\ ~LastOutcome(s, "ok")
                /\ LastOutcome(t, "ok") /\ Len(AdapterResult(t)) = 3
                /\ \A u \in Suppliers \ {s, t} : ~Configured(u) )
                  => (DOMAIN results = {t} /\ Len(results[t]) = 3)

\* C6: the returned mapping has a supplier's key exactly when the supplier's
\* adapter returned a record; a key never maps to the empty sequence, and a
\* supplier whose last answer was a status other than 200 has no key.
C6_KeyIffRecords ==
    pc = "done" =>
        \A s \in Suppliers :
            /\ s \in DOMAIN results <=> AdapterResult(s) # <<>>
            /\ s \in DOMAIN results => results[s] = AdapterResult(s)
            /\ LastOutcome(s, "status") => s \notin DOMAIN results

\* JLCPCB answered 503 and has no key, Digi-Key answered an empty hit list and
\* has no key, Mouser made 3 records and is the only key.
C6_Witness ==
    /\ pc = "done"
    /\ LastOutcome("JLCPCB", "status")
    /\ LastOutcome("Digi-Key", "ok")
    /\ digikey_results = <<>>
    /\ Len(mouser_results) = 3
    /\ DOMAIN results = {"Mouser"}

\* C7 as claimed: after a failed request to a supplier no further request is
\* sent to that supplier.
C7_FailureEndsSupplier ==
    \A i, j \in 1..Len(reqs) :
        (i < j /\ reqs[i].sup = reqs[j].sup) => ~Failed(reqs[i])

\* C7 as amended: no kind of request is sent twice; the only request that
\* follows a failed request to the same supplier is the JLCPCB value search after
\* a failed part-number search, and that one always follows.
C7_NoRetry ==
    /\ \A i, j \in 1..Len(reqs) :
          (i < j /\ reqs[i].sup = reqs[j].sup) =>
              /\ reqs[i].op # reqs[j].op
              /\ Failed(reqs[i]) =>
                    (reqs[i].op = "part_search" /\ reqs[j].op = "value_search")
    /\ \A i \in 1..Len(reqs) :
          (reqs[i].op = "part_search" /\ Failed(reqs[i])) =>
              \/ i = Len(reqs) /\ pc = "jlcpcb_value"
              \/ i < Len(reqs) /\ reqs[i + 1].op = "value_search"

\* The part-number search timed out and the value search followed; the token
\* request was refused and nothing more went to Digi-Key; the Mouser search
\* timed out and search_all returned.
C7_Witness ==
    /\ pc = "done"
    /\ Len(reqs) = 4
    /\ reqs[1].op = "part_search" /\ reqs[1].outcome = "exc"
    /\ reqs[2].op = "value_search"
    /\ reqs[3].op = "token" /\ reqs[3].outcome = "status"
    /\ reqs[4].op = "search" /\ reqs[4].outcome = "exc"

\* The raw stock and price of hit h of supplier s.
RawStock(s, h) ==
    CASE s = "JLCPCB" -> (IF Has(h.stock) THEN h.stock ELSE h.stockQty)
      [] s = "Digi-Key" -> h.QuantityAvailable
      [] OTHER -> h.Availability

RawPrice(s, h) ==
    CASE s = "JLCPCB" -> h.price
      [] s = "Digi-Key" ->
            (IF h.StandardPricing = <<>> THEN Absent ELSE h.StandardPricing[1].UnitPrice)
      [] OTHER -> (IF h.PriceBreaks = <<>> THEN Absent ELSE h.PriceBreaks[1].Price)

Unparsable(v) == v.tag \in {"absent", "text", "null"}

\* C8: in every record of every adapter the stock is an integer >= 0 and the
\* price is >= 0; an absent or unparsable stock or price gives 0, and a price
\* written with thousands separators gives its numeric value.
C8_StockAndPriceNormalized ==
    \A s \in Suppliers :
        \A i \in 1..Len(AdapterResult(s)) :
            LET r == AdapterResult(s)[i]
                h == search_data[s][r.part_number]
            IN  /\ r.stock.tag = "int"
                /\ r.stock.n >= 0
                /\ r.price >= 0
                /\ Unparsable(RawStock(s, h)) => r.stock = IntV(0)
                /\ Unparsable(RawPrice(s, h)) => r.price = 0
                /\ RawPrice(s, h).tag = "str_sep" => r.price = RawPrice(s, h).n

Min(a, b) == IF a < b THEN a ELSE b

\* C9: an adapter whose value, keyword or search request brought n hits returns
\* min(n, 5) records, the i-th made from the i-th hit, with 0 for a stock or
\* price that is absent or unparsable.
C9_NoRecordLost ==
    \A s \in Suppliers :
        ( /\ Returned(s)
          /\ LastOutcome(s, "ok")
          /\ reqs[LastIdx(s)].op # "part_search" ) =>
            /\ Len(AdapterResult(s)) = Min(Len(search_data[s]), TopN)
            /\ \A i \in 1..Len(AdapterResult(s)) :
                  /\ AdapterResult(s)[i].part_number = i
                  /\ Unparsable(RawPrice(s, search_data[s][i]))
                        => AdapterResult(s)[i].price = 0

\* C10: a part-number search is sent exactly when a part number is given, as
\* the first request and with the term "<manufacturer> <part_number>" or
\* "<part_number>"; when it brings components, search_jlcpcb returns the one
\* record of the component select_best_part chooses among them and sends no
\* value search; when it brings none, the value search is sent next.  With
\* "Acme", "ABC123" and one component of stock 500 and price "2.10" the JLCPCB
\* entry is one record of stock 500 and price 2.10.
C10_PartNumberFastPath ==
    LET first == reqs[1]
        fast == Len(reqs) >= 1 /\ first.op = "part_search"
    IN  /\ \A i \in 1..Len(reqs) :
              reqs[i].op = "part_search" => (i = 1 /\ args.mfg_part # "")
        /\ (Len(reqs) >= 1 /\ args.mfg_part # "") =>
              /\ first.op = "part_search"
              /\ first.sup = "JLCPCB"
              /\ first.term = (IF args.manufacturer = ""
                                 THEN <<"ABC123">> ELSE <<"Acme", "ABC123">>)
        /\ (fast /\ first.outcome = "ok" /\ first.nhits >= 1) =>
              /\ Returned("JLCPCB")
              /\ \A i \in 1..Len(reqs) : reqs[i].op # "value_search"
              /\ Len(search_data["JLCPCB"]) = first.nhits
              /\ Len(jlcpcb_results) = 1
              /\ jlcpcb_results[1] =
                    parse_jlcpcb_result(select_best_part(search_data["JLCPCB"])[1],
                                        args.value, args.footprint)
              /\ ( /\ first.term = <<"Acme", "ABC123">>
                   /\ first.nhits = 1
                   /\ search_data["JLCPCB"][1].stock = IntV(500)
                   /\ search_data["JLCPCB"][1].price = StrDec(210) ) =>
                    /\ jlcpcb_results[1].stock = IntV(500)
                    /\ jlcpcb_results[1].price = 210
                    /\ pc = "done" => results["JLCPCB"] = jlcpcb_results
        /\ (fast /\ first.outcome # "nullhit" /\ first.nhits = 0) =>
              \/ Len(reqs) = 1 /\ pc = "jlcpcb_value"
              \/ Len(reqs) >= 2 /\ reqs[2].op = "value_search"
                               /\ reqs[2].term = <<args.value>>
                               /\ reqs[2].package = args.footprint

\* The scenario of the claim, and nothing else sent to JLCPCB.
C10_Witness ==
    /\ pc = "done"
    /\ args.manufacturer = "Acme"
    /\ args.mfg_part = "ABC123"
    /\ reqs[1].term = <<"Acme", "ABC123">>
    /\ ReqIdx("JLCPCB") = {1}
    /\ Len(search_data["JLCPCB"]) = 1
    /\ search_data["JLCPCB"][1].stock = IntV(500)
    /\ search_data["JLCPCB"][1].price = StrDec(210)
    /\ Len(results["JLCPCB"]) = 1
    /\ results["JLCPCB"][1].stock = IntV(500)
    /\ results["JLCPCB"][1].price = 210

\* All the credentials the adapter sends are set.
FullyConfigured(s) ==
    CASE s = "JLCPCB" -> TRUE
      [] s = "Digi-Key" -> config.digikey_client_id /\ config.digikey_client_secret
      [] OTHER -> config.mouser_api_key

\* C11: a distributor adapter whose credentials are not all configured (no
\* digikey_client_id, no mouser_api_key, or a client id without its client
\* secret) returns an empty list, sends no request and raises nothing.
C11_UnconfiguredSendsNothing ==
    \A s \in {"Digi-Key", "Mouser"} :
        (Returned(s) /\ ~FullyConfigured(s)) =>
            /\ ReqIdx(s) = {}
            /\ AdapterResult(s) = <<>>
            /\ s \notin DOMAIN results
            /\ exc = "none"

\* C12: the keyword search of search_digikey is sent only right after a token
\* request that succeeded and yielded an access token, and carries that token;
\* after a token request that failed (exception, status other than 200, or a
\* body without access_token) no keyword search is sent and search_digikey
\* returns an empty list.
C12_KeywordOnlyAfterToken ==
    /\ \A i \in 1..Len(reqs) :
          reqs[i].op = "keyword" =>
              /\ i > 1
              /\ reqs[i - 1].op = "token"
              /\ reqs[i - 1].outcome = "ok"
              /\ reqs[i].auth = "tok"
    /\ \A i \in 1..Len(reqs) :
          (reqs[i].op = "token" /\ reqs[i].outcome # "ok") =>
              /\ pc # "digikey_search"
              /\ \A j \in 1..Len(reqs) : reqs[j].op # "keyword"
              /\ digikey_results = <<>>
              /\ "Digi-Key" \notin DOMAIN results

\* The id a component carries: 'lcsc', or 'lcscCode' when there is no 'lcsc'.
RawId(h) == IF Has(h.lcsc) THEN h.lcsc ELSE h.lcscCode

\* A number, or a string of digits.
PurelyNumeric(v) == v.tag \in {"int", "str_int"} /\ v.n >= 0

\* C13: in every JLCPCB record made from a component that carries an id, in
\* 'lcsc' or in 'lcscCode', lcsc_part and the id in url are "C" followed by the
\* digits when the raw id is purely numeric, and the raw id unchanged otherwise.
C13_MarketplaceIdCanonical ==
    Returned("JLCPCB") =>
        \A i \in 1..Len(jlcpcb_results) :
            LET r == jlcpcb_results[i]
                raw == RawId(search_data["JLCPCB"][r.part_number])
            IN  Has(raw) =>
                    IF PurelyNumeric(raw)
                      THEN r.lcsc_part = CId(raw.n) /\ r.url.id = CId(raw.n)
                      ELSE r.lcsc_part = raw /\ r.url.id = raw

\* The record the mapper of s makes from one hit.
ParseOf(s, h) ==
    CASE s = "JLCPCB" -> parse_jlcpcb_result(h, args.value, args.footprint)
      [] s = "Digi-Key" -> parse_digikey_result(h, args.value, args.footprint).rec[1]
      [] OTHER -> parse_mouser_result(h, args.value, args.footprint).rec[1]

\* C14: outside the part-number search, an adapter whose request brought n hits
\* returns min(n, 5) records, the i-th being the parse of the i-th hit, none
\* reordered, left out or reduced to a best candidate, and never more records
\* than the limit of 10 it asked for.
C14_RawTopN ==
    \A s \in Suppliers :
        ( /\ Returned(s)
          /\ LastOutcome(s, "ok")
          /\ reqs[LastIdx(s)].op # "part_search" ) =>
            LET hits == search_data[s]
                recs == AdapterResult(s)
            IN  /\ TopN <= reqs[LastIdx(s)].limit
                /\ Len(recs) <= reqs[LastIdx(s)].limit
                /\ Len(recs) = Min(Len(hits), TopN)
                /\ \A i \in 1..Len(recs) : recs[i] = ParseOf(s, hits[i])

=============================================================================
